---- MODULE Spec2Model ----
(***************************************************************************)
(* osprey: one worker process (execute_worker.py: execute and              *)
(* run_single_trial, statement by statement, with a GP strategy) on a      *)
(* trial store it shares with other worker processes, which run the same   *)
(* code and appear through their two commits; and the SobolSearch,         *)
(* GridSearch, GP and HyperoptTPE strategies of strategies.py, each called *)
(* again and again on histories drawn from a bounded set.                  *)
(*                                                                         *)
(* Unit-cube coordinates are scaled by 100, so that the tolerance 1e-2 of  *)
(* GP._is_within is the integer 1 and a squared distance is an integer.    *)
(* An optional Python value (None or v) is the sequence <<>> or <<v>>.     *)
(***************************************************************************)
EXTENDS Integers, Sequences, FiniteSets, TLC

VARIABLES
    store,      \* the committed rows of the Trial table, in insertion order
    rowLog,     \* per store row: how its parameters were chosen and its evaluation ended
    t,          \* the Trial object of run_single_trial (session state, uncommitted)
    tid,        \* the row of t in store (0: no row)
    pc,         \* the position of the worker in execute / run_single_trial
    iter,       \* the loop variable i of execute
    history,    \* the list built at execute_worker.py:61
    params,     \* the value returned by strategy.suggest
    sugSrc,     \* which return statement of GP.suggest produced params
    statuses,   \* the statuses recorded at execute_worker.py:72
    exitCode,   \* the exit status of the process (<<>> while it runs)
    pending,    \* an exception is propagating through the finally block
    now,        \* the value the next datetime.now() of the worker returns
    cancelLog,  \* the positions at which a SIGTERM / SIGINT reached the worker
    model,      \* GP.model of the worker's strategy (<<>> is None)
    score,      \* the local variable score of run_single_trial (<<>>: unset)
    best,       \* the best score so far printed at execute_worker.py:104
    others,     \* the other worker processes that have committed a trial so far
    otherRead,  \* the history read by the last other worker that started a trial
    sobol,      \* a SobolSearch object
    sobolOut,   \* the outcome of the last SobolSearch.suggest call
    grid,       \* a GridSearch object
    gridOut,    \* the outcome of the last GridSearch.suggest call
    gp,         \* a GP object
    gpOut,      \* the arguments and the outcome of the last GP.suggest call
    tpeOut      \* the argument and the outcome of the last HyperoptTPE.suggest call

workerVars == <<store, rowLog, t, tid, pc, iter, history, params, sugSrc, statuses,
                exitCode, pending, now, cancelLog, model, score, best, others, otherRead>>
strategyVars == <<sobol, sobolOut, grid, gridOut, gp, gpOut, tpeOut>>
vars == <<workerVars, strategyVars>>

----------------------------------------------------------------------------
(* Bounds of the model *)

NIters == 2
MaxCancels == 1
MaxOthers == 1
MaxLength == 3
MaxSobolCalls == 5
MaxHistory == 2
MaxChoices == 3
MaxGridCalls == 9
MaxSeeds == 2
MaxGPHistory == 2
MaxGPCalls == 2
MaxTPECalls == 2
MaxTPEHistory == 2


(* Program constants *)
Seeds == 1
SKIP == 10000
DefaultLength == 1000
Tol == 1
NDims == 2

Terminal == {"SUCCEEDED", "FAILED"}

----------------------------------------------------------------------------
(* The search space: NDims continuous variables on [VarMin, VarMin + 1],   *)
(* values in hundredths.                                                   *)

VarMin == 300

PointToGp(p) == [j \in 1..NDims |-> p[j] - VarMin]
PointFromGp(g) == [j \in 1..NDims |-> g[j] + VarMin]

GpPoints == {<<0, 0>>, <<50, 50>>}
NativePoints == {PointFromGp(g) : g \in GpPoints}

\* The scored evaluation: the mean cross-validation score of a parameter set
\* (the data set, the estimator and the folds are fixed for a run)
MeanScore(p) == IF PointToGp(p)[1] = 0 THEN -1 ELSE 2

----------------------------------------------------------------------------
(* Helpers *)

RECURSIVE SumSq(_, _, _)
SumSq(point, X, j) ==
    IF X = <<>> THEN 0
    ELSE (point[j] - Head(X)[j]) * (point[j] - Head(X)[j]) + SumSq(point, Tail(X), j)

\* the status filter of _get_data forgotten: a row for every entry
SelectRowsAll(h, status) == [i \in 1..Len(h) |-> PointToGp(h[i].params)]

\* _get_data: the transformed points of the entries with one status, in order
RECURSIVE SelectRows(_, _)
SelectRows(h, status) ==
    IF h = <<>> THEN <<>>
    ELSE IF Head(h).status = status
         THEN <<PointToGp(Head(h).params)>> \o SelectRows(Tail(h), status)
         ELSE SelectRows(Tail(h), status)

Max(a, b) == IF a >= b THEN a ELSE b

NoTrial == [status |-> "NONE", params |-> <<>>, mean |-> <<>>, traceback |-> "",
            started |-> 0, completed |-> <<>>, elapsed |-> <<>>, owner |-> 0]

----------------------------------------------------------------------------
(* GP (strategies.py) *)

\* _get_data: the rows of X (SUCCEEDED entries) and of ignore (PENDING entries)
GetX(h) == SelectRows(h, "SUCCEEDED")
GetIgnore(h) == SelectRows(h, "PENDING")

\* line 549 without the membership test: no suggestion is ever suppressed
InIgnoreNever(suggestion, ignore) == FALSE

\* `suggestion in ignore` on a numpy array: (ignore == suggestion).any(), an
\* elementwise comparison of the suggestion, broadcast over the rows of ignore
InIgnore(suggestion, ignore) ==
    \E i \in 1..Len(ignore) : \E j \in 1..NDims : ignore[i][j] = suggestion[j]

\* _is_within: sqrt(((point - X)**2).sum(axis=0)) <= tol has one entry per
\* column of X, the sum running over the rows
IsWithin(point, X) ==
    \E j \in 1..NDims : SumSq(point, X, j) <= Tol * Tol

\* RandomSearch.suggest: searchspace.rvs draws any point of the native domain
RandomSuggest(rnd) == rnd

\* np.mean and np.var of a non-empty list of scores (the inputs of the model
\* have integral means and variances)
RECURSIVE Sum(_)
Sum(s) == IF s = <<>> THEN 0 ELSE Head(s) + Sum(Tail(s))

Mean(s) == Sum(s) \div Len(s)

Var(s) == Sum([i \in 1..Len(s) |-> (s[i] - Mean(s)) * (s[i] - Mean(s))]) \div Len(s)

\* _get_data, lines 476-480: Y and V get np.mean(scores) and np.var(scores) of
\* the SUCCEEDED entries
RECURSIVE SelectMeans(_)
SelectMeans(h) ==
    IF h = <<>> THEN <<>>
    ELSE IF Head(h).status = "SUCCEEDED"
         THEN <<Mean(Head(h).score)>> \o SelectMeans(Tail(h))
         ELSE SelectMeans(Tail(h))

RECURSIVE SelectVars(_)
SelectVars(h) ==
    IF h = <<>> THEN <<>>
    ELSE IF Head(h).status = "SUCCEEDED"
         THEN <<Var(Head(h).score)>> \o SelectVars(Tail(h))
         ELSE SelectVars(Tail(h))

\* _get_data: the four arrays, or the RuntimeError of line 485
GetData(h) ==
    IF \E i \in 1..Len(h) : h[i].status \notin {"FAILED", "SUCCEEDED", "PENDING"}
    THEN [kind |-> "RuntimeError", X |-> <<>>, Y |-> <<>>, V |-> <<>>, ignore |-> <<>>]
    ELSE [kind |-> "data", X |-> GetX(h), Y |-> SelectMeans(h), V |-> SelectVars(h),
          ignore |-> GetIgnore(h)]

\* GP.__init__: kerns stands for the `kernels` argument
NewGP(seeds, kerns) ==
    [seeds |-> seeds, kerns |-> kerns, model |-> <<>>, kernel |-> <<>>, n_dims |-> <<>>]

\* the kernel specifications: a list of well-formed entries naming GPy kernels;
\* an entry without the keys name, options, params; an entry whose name
\* load_entry_point cannot resolve
KernelSpecs == {"valid", "bad_keys", "unresolvable"}

\* _create_kernel: self.kernel is assigned at line 318, or a check raises
CreateKernel(obj, stamp) ==
    IF obj.kerns = "valid"
    THEN [obj |-> [obj EXCEPT !.kernel = <<stamp>>], kind |-> "ok"]
    ELSE [obj |-> obj, kind |-> "RuntimeError"]

\* _fit_model with the except clause of lines 333-334 leaving self.model alone
FitModelKeepOld(obj, fitOk, stamp) ==
    [obj EXCEPT !.model = IF fitOk THEN <<stamp>> ELSE @]

\* _fit_model: the fitted model, or None after a LinAlgError
FitModel(obj, fitOk, stamp) ==
    [obj EXCEPT !.model = IF fitOk THEN <<stamp>> ELSE <<>>]

\* the guards of lines 515 and 522, off by one
TooFewOffByOne(n, seeds) == n < seeds - 1

\* the guards of lines 515 and 522
TooFew(n, seeds) == n < seeds

\* GP.suggest on the object obj, for a history h, the outcome of the fit, the
\* optimum cand found by _optimize_acquisition and the point rnd that
\* RandomSearch would draw; stamp names the model this call fits. The object
\* after the call, and what the call returned or raised.
GPObjSuggest(obj, h, fitOk, cand, rnd, stamp) ==
    IF TooFew(Len(h), obj.seeds)
    THEN [obj |-> obj, kind |-> "params", src |-> "random_history",
          params |-> RandomSuggest(rnd)]
    ELSE
    LET o1 == [obj EXCEPT !.n_dims = <<NDims>>]
        data == GetData(h)
    IN  IF data.kind = "RuntimeError"
        THEN [obj |-> o1, kind |-> "RuntimeError", src |-> "get_data", params |-> <<>>]
        ELSE IF TooFew(Len(data.Y), obj.seeds)
        THEN [obj |-> o1, kind |-> "params", src |-> "random_succeeded",
              params |-> RandomSuggest(rnd)]
        ELSE
        LET k == CreateKernel(o1, stamp)
        IN  IF k.kind = "RuntimeError"
            THEN [obj |-> k.obj, kind |-> "RuntimeError", src |-> "create_kernel",
                  params |-> <<>>]
            ELSE
            LET o2 == FitModel(k.obj, fitOk, stamp)
            IN  IF o2.model = <<>>
                THEN [obj |-> o2, kind |-> "params", src |-> "random_fit",
                      params |-> RandomSuggest(rnd)]
                ELSE IF InIgnore(cand, data.ignore) \/ IsWithin(cand, data.X)
                THEN [obj |-> o2, kind |-> "params", src |-> "random_suppressed",
                      params |-> RandomSuggest(rnd)]
                ELSE [obj |-> o2, kind |-> "params", src |-> "gp",
                      params |-> PointFromGp(cand)]

\* GP.suggest of a strategy built with the default arguments, for a history h
\* of the trial store and the model left by earlier calls; the model fitted
\* is named by the number of its observations
GPSuggest(h, oldModel, fitOk, cand, rnd) ==
    LET r == GPObjSuggest([NewGP(Seeds, "valid") EXCEPT !.model = oldModel],
                          h, fitOk, cand, rnd, Len(GetX(h)))
    IN  [params |-> r.params, src |-> r.src, model |-> r.obj.model]

----------------------------------------------------------------------------
(* The worker (execute_worker.py) *)

\* [t.parameters, t.mean_cv_score, t.status] for t in session.query(Trial).all()
QueryAll(rows) ==
    [k \in 1..Len(rows) |->
        [params |-> rows[k].params, score |-> rows[k].mean, status |-> rows[k].status]]

\* session.query(func.max(Trial.mean_cv_score)): the query flushes the session,
\* so the worker's own row is read as t; NULL scores do not enter the maximum
MaxMeanScore(rows) ==
    LET seen == [k \in 1..Len(rows) |-> IF k = tid THEN t ELSE rows[k]]
        vals == {seen[k].mean[1] : k \in {i \in 1..Len(rows) : seen[i].mean # <<>>}}
    IN  IF vals = {} THEN <<>> ELSE <<CHOOSE v \in vals : \A u \in vals : u <= v>>

TryBody == {"eval", "capture", "report"}
Handlers == {"except_exc", "except_status", "except_cancel"}
FinallyBlock == {"finally", "commit"}

InitWorker ==
    /\ store = <<>>
    /\ t = NoTrial
    /\ tid = 0
    /\ pc = "query"
    /\ iter = 0
    /\ history = <<>>
    /\ params = <<>>
    /\ sugSrc = "none"
    /\ statuses = <<>>
    /\ exitCode = <<>>
    /\ pending = FALSE
    /\ now = 0
    /\ cancelLog = <<>>
    /\ rowLog = <<>>
    /\ model = <<>>
    /\ score = <<>>
    /\ best = <<>>
    /\ others = 0
    /\ otherRead = <<>>

\* execute_worker.py:61-62
QueryHistoryCached ==
    /\ pc = "query"
    /\ history' = IF iter = 0 THEN QueryAll(store) ELSE history
    /\ pc' = "suggest"
    /\ UNCHANGED <<strategyVars, others, otherRead,
                   store, t, tid, iter, params, sugSrc, statuses, exitCode, pending,
                   now, cancelLog, rowLog, model, score, best>>

QueryHistory ==
    /\ pc = "query"
    /\ history' = QueryAll(store)
    /\ pc' = "suggest"
    /\ UNCHANGED <<strategyVars, others, otherRead,
                   store, t, tid, iter, params, sugSrc, statuses, exitCode, pending,
                   now, cancelLog, rowLog, model, score, best>>

\* execute_worker.py:65, with strategy a GP object
Suggest ==
    /\ pc = "suggest"
    /\ \E fitOk \in BOOLEAN, cand \in GpPoints, rnd \in NativePoints :
         LET r == GPSuggest(history, model, fitOk, cand, rnd)
         IN  /\ params' = r.params
             /\ sugSrc' = r.src
             /\ model' = r.model
    /\ pc' = "create"
    /\ UNCHANGED <<strategyVars, others, otherRead,
                   store, t, tid, iter, history, statuses, exitCode, pending,
                   now, cancelLog, rowLog, score, best>>

\* what the model remembers of a row: the return statement of GP.suggest that
\* chose its parameters, the length of the history its worker had read, and
\* the end of its evaluation
NewLog(src, seen) == [src |-> src, seen |-> seen, eval |-> "none"]

NewTrial ==
    [status |-> "PENDING", params |-> params, mean |-> <<>>, traceback |-> "",
     started |-> now, completed |-> <<>>, elapsed |-> <<>>, owner |-> 0]

\* execute_worker.py:85-89 with the commit of line 89 left out
CreateTrialNoCommit ==
    /\ pc = "create"
    /\ t' = NewTrial
    /\ tid' = 0
    /\ score' = <<>>
    /\ now' = now + 1
    /\ pc' = "enter_try"
    /\ UNCHANGED <<strategyVars, others, otherRead,
                   store, rowLog, iter, history, params, sugSrc, statuses, exitCode,
                   pending, cancelLog, model, best>>

\* execute_worker.py:81-89
CreateTrial ==
    /\ pc = "create"
    /\ t' = NewTrial
    /\ store' = Append(store, NewTrial)
    /\ tid' = Len(store) + 1
    /\ rowLog' = Append(rowLog, NewLog(sugSrc, Len(history)))
    /\ score' = <<>>
    /\ now' = now + 1
    /\ pc' = "enter_try"
    /\ UNCHANGED <<strategyVars, others, otherRead,
                   iter, history, params, sugSrc, statuses, exitCode, pending,
                   cancelLog, model, best>>

\* execute_worker.py:91
EnterTry ==
    /\ pc = "enter_try"
    /\ pc' = "eval"
    /\ UNCHANGED <<strategyVars, others, otherRead,
                   store, t, tid, iter, history, params, sugSrc, statuses, exitCode,
                   pending, now, cancelLog, rowLog, model, score, best>>

LogEval(what) ==
    IF tid \in 1..Len(rowLog) THEN [rowLog EXCEPT ![tid].eval = what] ELSE rowLog

\* execute_worker.py:92-96: the evaluation returns a score or raises an Exception
Evaluate ==
    /\ pc = "eval"
    /\ \/ /\ score' = <<MeanScore(t.params)>>
          /\ rowLog' = LogEval("ok")
          /\ pc' = "capture"
       \/ /\ rowLog' = LogEval("error")
          /\ pc' = "except_exc"
          /\ UNCHANGED score
    /\ UNCHANGED <<strategyVars, others, otherRead,
                   store, t, tid, iter, history, params, sugSrc, statuses, exitCode,
                   pending, now, cancelLog, model, best>>

\* execute_worker.py:98-100
Capture ==
    /\ pc = "capture"
    /\ t' = [t EXCEPT !.mean = score, !.status = "SUCCEEDED"]
    /\ pc' = "report"
    /\ UNCHANGED <<strategyVars, others, otherRead,
                   store, tid, iter, history, params, sugSrc, statuses, exitCode,
                   pending, now, cancelLog, rowLog, model, score, best>>

\* execute_worker.py:101-105: the query and the prints complete, or one raises
Report ==
    /\ pc = "report"
    /\ \/ /\ best' = <<Max(t.mean[1], MaxMeanScore(store)[1])>>
          /\ pc' = "finally"
       \/ /\ pc' = "except_exc"
          /\ UNCHANGED best
    /\ UNCHANGED <<strategyVars, others, otherRead,
                   store, t, tid, iter, history, params, sugSrc, statuses, exitCode,
                   pending, now, cancelLog, rowLog, model, score>>

\* execute_worker.py:107-110
ExceptTrace ==
    /\ pc = "except_exc"
    /\ t' = [t EXCEPT !.traceback = "Traceback (most recent call last)"]
    /\ pc' = "except_status"
    /\ UNCHANGED <<strategyVars, others, otherRead,
                   store, tid, iter, history, params, sugSrc, statuses, exitCode,
                   pending, now, cancelLog, rowLog, model, score, best>>

\* execute_worker.py:111-116 with the exception raised again at the end
ExceptFailReraise ==
    /\ pc = "except_status"
    /\ t' = [t EXCEPT !.status = "FAILED"]
    /\ pending' = TRUE
    /\ pc' = "finally"
    /\ UNCHANGED <<strategyVars, others, otherRead,
                   store, tid, iter, history, params, sugSrc, statuses, exitCode,
                   now, cancelLog, rowLog, model, score, best>>

\* execute_worker.py:111-116
ExceptFail ==
    /\ pc = "except_status"
    /\ t' = [t EXCEPT !.status = "FAILED"]
    /\ pc' = "finally"
    /\ UNCHANGED <<strategyVars, others, otherRead,
                   store, tid, iter, history, params, sugSrc, statuses, exitCode,
                   pending, now, cancelLog, rowLog, model, score, best>>

\* execute_worker.py:118-119 without the sys.exit(1) of line 119
ExceptCancelNoExit ==
    /\ pc = "except_cancel"
    /\ t' = [t EXCEPT !.status = "FAILED"]
    /\ pc' = "finally"
    /\ UNCHANGED <<strategyVars, others, otherRead,
                   store, tid, iter, history, params, sugSrc, statuses, exitCode,
                   pending, now, cancelLog, rowLog, model, score, best>>

\* execute_worker.py:118-119 without the assignment of line 118
ExceptCancelNoStatus ==
    /\ pc = "except_cancel"
    /\ pending' = TRUE
    /\ pc' = "finally"
    /\ UNCHANGED <<strategyVars, others, otherRead,
                   store, t, tid, iter, history, params, sugSrc, statuses, exitCode,
                   now, cancelLog, rowLog, model, score, best>>

\* execute_worker.py:117-119: sys.exit(1) raises SystemExit inside the handler
ExceptCancel ==
    /\ pc = "except_cancel"
    /\ t' = [t EXCEPT !.status = "FAILED"]
    /\ pending' = TRUE
    /\ pc' = "finally"
    /\ UNCHANGED <<strategyVars, others, otherRead,
                   store, tid, iter, history, params, sugSrc, statuses, exitCode,
                   now, cancelLog, rowLog, model, score, best>>

\* execute_worker.py:121-122 stamping only a trial that succeeded
FinallyStampOnSuccess ==
    /\ pc = "finally"
    /\ t' = [t EXCEPT !.completed = IF t.status = "SUCCEEDED" THEN <<now>> ELSE @,
                      !.elapsed = IF t.status = "SUCCEEDED"
                                     THEN <<now - t.started>> ELSE @]
    /\ now' = now + 1
    /\ pc' = "commit"
    /\ UNCHANGED <<strategyVars, others, otherRead,
                   store, tid, iter, history, params, sugSrc, statuses, exitCode,
                   pending, cancelLog, rowLog, model, score, best>>

\* execute_worker.py:121-122
FinallyStamp ==
    /\ pc = "finally"
    /\ t' = [t EXCEPT !.completed = <<now>>, !.elapsed = <<now - t.started>>]
    /\ now' = now + 1
    /\ pc' = "commit"
    /\ UNCHANGED <<strategyVars, others, otherRead,
                   store, tid, iter, history, params, sugSrc, statuses, exitCode,
                   pending, cancelLog, rowLog, model, score, best>>

\* execute_worker.py:123, then the exception in flight leaves run_single_trial
\* and execute, or line 125 is reached
FinallyCommit ==
    /\ pc = "commit"
    /\ store' = IF tid \in 1..Len(store) THEN [store EXCEPT ![tid] = t]
                ELSE Append(store, t)
    /\ tid' = IF tid \in 1..Len(store) THEN tid ELSE Len(store) + 1
    /\ rowLog' = IF tid \in 1..Len(store) THEN rowLog ELSE Append(rowLog, NewLog(sugSrc, Len(history)))
    /\ IF pending
       THEN /\ pc' = "exited"
            /\ exitCode' = <<1>>
       ELSE /\ pc' = "return"
            /\ UNCHANGED exitCode
    /\ UNCHANGED <<strategyVars, others, otherRead,
                   t, iter, history, params, sugSrc, statuses, pending,
                   now, cancelLog, model, score, best>>

\* execute_worker.py:125, 72 and the loop header of line 54
Return ==
    /\ pc = "return"
    /\ statuses' = Append(statuses, t.status)
    /\ iter' = iter + 1
    /\ pc' = IF iter + 1 < NIters THEN "query" ELSE "footer"
    /\ UNCHANGED <<strategyVars, others, otherRead,
                   store, t, tid, history, params, sugSrc, exitCode, pending,
                   now, cancelLog, rowLog, model, score, best>>

\* execute_worker.py:74: the footer is printed and the process ends
Footer ==
    /\ pc = "footer"
    /\ pc' = "exited"
    /\ exitCode' = <<0>>
    /\ UNCHANGED <<strategyVars, others, otherRead,
                   store, t, tid, iter, history, params, sugSrc, statuses, pending,
                   now, cancelLog, rowLog, model, score, best>>

\* A SIGTERM (signal_hander, execute_worker.py:49-51: footer, then sys.exit(1)
\* raises SystemExit at the interrupted statement) or a SIGINT (KeyboardInterrupt
\* raised there). Inside the try body the clause of line 117 catches it; inside
\* a handler it propagates through the finally block; anywhere else, the
\* finally block included, it ends the process at once.
Cancel ==
    /\ pc # "exited"
    /\ Len(cancelLog) < MaxCancels
    /\ cancelLog' = Append(cancelLog, pc)
    /\ IF pc \in TryBody
       THEN /\ pc' = "except_cancel"
            /\ UNCHANGED <<pending, exitCode>>
       ELSE IF pc \in Handlers
       THEN /\ pc' = "finally"
            /\ pending' = TRUE
            /\ UNCHANGED exitCode
       ELSE /\ pc' = "exited"
            /\ exitCode' = <<1>>
            /\ UNCHANGED pending
    /\ UNCHANGED <<strategyVars, others, otherRead,
                   store, t, tid, iter, history, params, sugSrc, statuses,
                   now, rowLog, model, score, best>>

\* Another worker process runs execute_worker.py:61-89 (strategy a fresh GP
\* object): it reads the history, chooses parameters and commits a PENDING row
OtherRow(r, n) ==
    [status |-> "PENDING", params |-> r.params, mean |-> <<>>, traceback |-> "",
     started |-> 0, completed |-> <<>>, elapsed |-> <<>>, owner |-> n]

OtherStart ==
    /\ others < MaxOthers
    /\ \E fitOk \in BOOLEAN, cand \in GpPoints, rnd \in NativePoints :
         LET r == GPSuggest(QueryAll(store), <<>>, fitOk, cand, rnd)
         IN  /\ store' = Append(store, OtherRow(r, others + 1))
             /\ rowLog' = Append(rowLog, NewLog(r.src, Len(store)))
    /\ others' = others + 1
    /\ otherRead' = QueryAll(store)
    /\ UNCHANGED <<strategyVars, t, tid, pc, iter, history, params, sugSrc, statuses,
                   exitCode, pending, now, cancelLog, model, score, best>>

\* Another worker process runs execute_worker.py:91-123 on its PENDING row:
\* the evaluation succeeds or raises
OtherFinish ==
    /\ \E k \in 1..Len(store) :
         /\ store[k].owner # 0
         /\ store[k].status = "PENDING"
         /\ \/ /\ store' = [store EXCEPT ![k].status = "SUCCEEDED",
                                         ![k].mean = <<MeanScore(store[k].params)>>,
                                         ![k].completed = <<1>>, ![k].elapsed = <<1>>]
               /\ rowLog' = [rowLog EXCEPT ![k].eval = "ok"]
            \/ /\ store' = [store EXCEPT ![k].status = "FAILED",
                                         ![k].traceback = "Traceback (most recent call last)",
                                         ![k].completed = <<1>>, ![k].elapsed = <<1>>]
               /\ rowLog' = [rowLog EXCEPT ![k].eval = "error"]
    /\ UNCHANGED <<strategyVars, others, otherRead, t, tid, pc, iter, history, params,
                   sugSrc, statuses, exitCode, pending, now, cancelLog, model, score, best>>

----------------------------------------------------------------------------
(* SobolSearch (strategies.py). sequence holds the number of rows of the     *)
(* array that ss.sample returned; row i of it is the i-th Sobol point.       *)

NewSobol(length) ==
    [sequence |-> <<>>, length |-> length, n_dims |-> 0, offset |-> 0, counter |-> 0]

\* _set_sequence with the burn-in rows left out of the sample
SetSequenceNoSkip(obj) == [obj EXCEPT !.sequence = <<obj.length>>]

\* _set_sequence
SetSequence(obj) == [obj EXCEPT !.sequence = <<obj.length + SKIP>>]

\* lines 118-121 run at every call: the offset follows the history
SobolPrepareEveryCall(obj, hlen) ==
    SetSequence([obj EXCEPT !.n_dims = NDims, !.offset = hlen + SKIP])

\* suggest, lines 118-121: the first call sizes the sequence and fixes the offset
SobolPrepare(obj, hlen) ==
    IF obj.sequence = <<>>
    THEN SetSequence([obj EXCEPT !.n_dims = NDims, !.offset = hlen + SKIP])
    ELSE obj

\* suggest, lines 122-128, for a history of hlen entries: the object after the
\* call and what the call returned (the row read) or raised
SobolSuggest(obj, hlen) ==
    LET o == SobolPrepare(obj, hlen)
        idx == o.offset + o.counter
    IN  IF idx < o.sequence[1]
        THEN [obj |-> [o EXCEPT !.counter = @ + 1], kind |-> "point", index |-> idx]
        ELSE [obj |-> o, kind |-> "RuntimeError", index |-> idx]

InitSobolIdle ==
    /\ sobol = NewSobol(DefaultLength)
    /\ sobolOut = [kind |-> "none", index |-> 0, returned |-> <<>>, hist |-> <<>>]

InitSobol ==
    /\ \E length \in 1..MaxLength : sobol = NewSobol(length)
    /\ sobolOut = [kind |-> "none", index |-> 0, returned |-> <<>>, hist |-> <<>>]

\* one call strategy.suggest(history, searchspace) with len(history) = hlen
SobolCall ==
    /\ Len(sobolOut.hist) < MaxSobolCalls
    /\ \E hlen \in 0..MaxHistory :
         LET r == SobolSuggest(sobol, hlen)
         IN  /\ sobol' = r.obj
             /\ sobolOut' = [kind |-> r.kind, index |-> r.index,
                             returned |-> IF r.kind = "point"
                                          THEN Append(sobolOut.returned, r.index)
                                          ELSE sobolOut.returned,
                             hist |-> Append(sobolOut.hist, hlen)]
    /\ UNCHANGED <<workerVars, grid, gridOut, gp, gpOut, tpeOut>>

----------------------------------------------------------------------------
(* GridSearch (strategies.py). A search space is the tuple of the numbers of *)
(* choices of its variables, all of them EnumVariables or not; param_grid    *)
(* holds the sizes the ParameterGrid was built from.                         *)

NewGrid == [param_grid |-> <<>>, current |-> -1]

RECURSIVE Product(_)
Product(sizes) == IF sizes = <<>> THEN 1 ELSE Head(sizes) * Product(Tail(sizes))

\* ParameterGrid.__getitem__: item ind of the Cartesian product, the last
\* variable varying fastest
RECURSIVE GridItem(_, _)
GridItem(sizes, ind) ==
    IF sizes = <<>> THEN <<>>
    ELSE LET rest == Product(Tail(sizes))
         IN  <<ind \div rest>> \o GridItem(Tail(sizes), ind % rest)

\* line 573 without the modulo: the cursor stops at the last item
GridIndexNoWrap(current, size) == IF current < size THEN current ELSE size - 1

\* line 573: self.current % len(self.param_grid)
GridIndex(current, size) == current % size

\* suggest, lines 562-573, on a search space: the object after the call and
\* what the call returned or raised
GridSuggest(obj, space) ==
    IF obj.param_grid = <<>> /\ ~space.enum
    THEN [obj |-> obj, kind |-> "RuntimeError", index |-> -1, item |-> <<>>]
    ELSE LET sizes == IF obj.param_grid = <<>> THEN space.sizes ELSE obj.param_grid[1]
             cur == obj.current + 1
             ind == GridIndex(cur, Product(sizes))
         IN  [obj |-> [param_grid |-> <<sizes>>, current |-> cur],
              kind |-> "item", index |-> ind, item |-> GridItem(sizes, ind)]

GridSpaces ==
    {[enum |-> e, sizes |-> <<a, b>>] : e \in BOOLEAN, a \in 1..MaxChoices, b \in 1..MaxChoices}

InitGridIdle ==
    /\ grid = NewGrid
    /\ gridOut = [kind |-> "none", index |-> -1, item |-> <<>>, calls |-> 0, hlen |-> 0,
                  space |-> [enum |-> TRUE, sizes |-> <<1, 1>>]]

InitGrid ==
    /\ grid = NewGrid
    /\ \E space \in GridSpaces :
         gridOut = [kind |-> "none", index |-> -1, item |-> <<>>, calls |-> 0, hlen |-> 0,
                    space |-> space]

\* one call strategy.suggest(history, searchspace) with len(history) = hlen
GridCall ==
    /\ gridOut.calls < MaxGridCalls
    /\ \E hlen \in 0..MaxHistory :
         LET r == GridSuggest(grid, gridOut.space)
         IN  /\ grid' = r.obj
             /\ gridOut' = [kind |-> r.kind, index |-> r.index, item |-> r.item,
                            calls |-> gridOut.calls + 1, hlen |-> hlen,
                            space |-> gridOut.space]
    /\ UNCHANGED <<workerVars, sobol, sobolOut, gp, gpOut, tpeOut>>

----------------------------------------------------------------------------
(* The histories handed to a strategy: entries (parameters, scores, status)  *)
(* as the worker builds them, a SUCCEEDED entry with its scores, a PENDING   *)
(* entry with none, a FAILED entry with or without, and entries of a status  *)
(* no worker writes.                                                         *)

\* the scores of an evaluation are a function of its parameters
ScoresOf(p) == IF PointToGp(p)[1] = 0 THEN <<-1>> ELSE <<0, 4>>

GPEntries ==
    {[params |-> p, score |-> ScoresOf(p), status |-> "SUCCEEDED"] : p \in NativePoints}
    \cup {[params |-> p, score |-> <<>>, status |-> "PENDING"] : p \in NativePoints}
    \cup {[params |-> PointFromGp(<<0, 0>>), score |-> <<>>, status |-> st] :
              st \in {"FAILED", "RUNNING"}}

GPHistories == UNION {[1..n -> GPEntries] : n \in 0..MaxGPHistory}

TPEEntries ==
    GPEntries \cup {[params |-> PointFromGp(<<50, 50>>), score |-> <<0, 4>>,
                     status |-> "FAILED"]}

TPEHistories == UNION {[1..n -> TPEEntries] : n \in 0..MaxTPEHistory}

----------------------------------------------------------------------------
(* A GP object called again and again (strategies.py)                        *)

NoGPOut ==
    [kind |-> "none", src |-> "none", params |-> <<>>, h |-> <<>>, fitOk |-> FALSE,
     cand |-> <<>>, rnd |-> <<>>, calls |-> 0, before |-> NewGP(Seeds, "valid")]

InitGPIdle ==
    /\ gp = NewGP(Seeds, "valid")
    /\ gpOut = NoGPOut

InitGP ==
    /\ \E seeds \in 1..MaxSeeds, kerns \in KernelSpecs :
         /\ gp = NewGP(seeds, kerns)
         /\ gpOut = [NoGPOut EXCEPT !.before = NewGP(seeds, kerns)]

\* one call strategy.suggest(history, searchspace); the model it fits is
\* named by the number of the call
GPCall ==
    /\ gpOut.calls < MaxGPCalls
    /\ \E h \in GPHistories, fitOk \in BOOLEAN, cand \in GpPoints, rnd \in NativePoints :
         LET r == GPObjSuggest(gp, h, fitOk, cand, rnd, gpOut.calls + 1)
         IN  /\ gp' = r.obj
             /\ gpOut' = [kind |-> r.kind, src |-> r.src, params |-> r.params, h |-> h,
                          fitOk |-> fitOk, cand |-> cand, rnd |-> rnd,
                          calls |-> gpOut.calls + 1, before |-> gp]
    /\ UNCHANGED <<workerVars, sobol, sobolOut, grid, gridOut, tpeOut>>

----------------------------------------------------------------------------
(* HyperoptTPE.suggest (strategies.py): the synthetic Trials database        *)

\* lines 184-193: the result of a history entry
TpeResultOkForFailed(e) ==
    IF e.status \in {"SUCCEEDED", "FAILED"} /\ e.score # <<>>
    THEN [status |-> "ok", loss |-> <<-Mean(e.score)>>]
    ELSE IF e.status = "PENDING" THEN [status |-> "running", loss |-> <<>>]
    ELSE IF e.status = "FAILED" THEN [status |-> "fail", loss |-> <<>>]
    ELSE [status |-> "RuntimeError", loss |-> <<>>]

TpeResult(e) ==
    IF e.status = "SUCCEEDED" THEN [status |-> "ok", loss |-> <<-Mean(e.score)>>]
    ELSE IF e.status = "PENDING" THEN [status |-> "running", loss |-> <<>>]
    ELSE IF e.status = "FAILED" THEN [status |-> "fail", loss |-> <<>>]
    ELSE [status |-> "RuntimeError", loss |-> <<>>]

\* lines 200-226: the document of entry i (enumerate counts from 0), the
\* values of the continuous variables wrapped in lists of length one
TpeDoc(h, i) ==
    [tid |-> i - 1,
     misc |-> [tid |-> i - 1, vals |-> [j \in 1..NDims |-> <<h[i].params[j]>>]],
     result |-> TpeResult(h[i]),
     state |-> 2]

\* lines 182-228: the documents inserted, or the RuntimeError of line 193
TpeTrials(h) ==
    IF \E i \in 1..Len(h) : TpeResult(h[i]).status = "RuntimeError"
    THEN [kind |-> "RuntimeError", trials |-> <<>>]
    ELSE [kind |-> "trials", trials |-> [i \in 1..Len(h) |-> TpeDoc(h, i)]]

NoTpeOut == [kind |-> "none", trials |-> <<>>, h |-> <<>>, calls |-> 0]

InitTPEIdle == tpeOut = NoTpeOut

\* one call strategy.suggest(history, searchspace)
TpeCall ==
    /\ tpeOut.calls < MaxTPECalls
    /\ \E h \in TPEHistories :
         LET r == TpeTrials(h)
         IN  tpeOut' = [kind |-> r.kind, trials |-> r.trials, h |-> h,
                        calls |-> tpeOut.calls + 1]
    /\ UNCHANGED <<workerVars, sobol, sobolOut, grid, gridOut, gp, gpOut>>

----------------------------------------------------------------------------
(* Specifications *)

Init == InitWorker /\ InitSobolIdle /\ InitGridIdle /\ InitGPIdle /\ InitTPEIdle

Next ==
    \/ QueryHistory
    \/ Suggest
    \/ CreateTrial
    \/ EnterTry
    \/ Evaluate
    \/ Capture
    \/ Report
    \/ ExceptTrace
    \/ ExceptFail
    \/ ExceptCancel
    \/ FinallyStamp
    \/ FinallyCommit
    \/ Return
    \/ Footer
    \/ Cancel
    \/ OtherStart
    \/ OtherFinish

\* one worker process and the other workers of the store
Spec == Init /\ [][Next]_vars

\* a SobolSearch object called again and again
NextSobol == SobolCall
InitSobolSpec == InitWorker /\ InitSobol /\ InitGridIdle /\ InitGPIdle /\ InitTPEIdle
SpecSobol == InitSobolSpec /\ [][NextSobol]_vars

\* a GridSearch object called again and again on one search space
NextGrid == GridCall
InitGridSpec == InitWorker /\ InitSobolIdle /\ InitGrid /\ InitGPIdle /\ InitTPEIdle
SpecGrid == InitGridSpec /\ [][NextGrid]_vars

\* a GP object called again and again
NextGP == GPCall
InitGPSpec == InitWorker /\ InitSobolIdle /\ InitGridIdle /\ InitGP /\ InitTPEIdle
SpecGP == InitGPSpec /\ [][NextGP]_vars

\* a HyperoptTPE object called again and again
NextTPE == TpeCall
InitTPESpec == InitWorker /\ InitSobolIdle /\ InitGridIdle /\ InitGPIdle /\ InitTPEIdle
SpecTPE == InitTPESpec /\ [][NextTPE]_vars

----------------------------------------------------------------------------
(* Properties *)

OwnRows == {k \in 1..Len(store) : store[k].owner = 0}
Rows == 1..Len(store)

\* between the PENDING commit of line 89 and the commit of line 123
InFlight == {"enter_try"} \cup TryBody \cup Handlers \cup FinallyBlock

\* the positions at which no except clause of run_single_trial catches a
\* signal before the status of the trial in flight is assigned and committed
Unprotected == {"enter_try"} \cup Handlers \cup FinallyBlock

CancelledOnlyIn(S) == \A i \in 1..Len(cancelLog) : cancelLog[i] \in S

\* C1, as stated: when the worker process has ended, every trial it committed
\* as PENDING is committed as SUCCEEDED or FAILED, wherever a termination
\* signal arrived
C1_TerminalAtExit ==
    pc = "exited" => \A k \in OwnRows : store[k].status \in Terminal

\* C1, amended: when the worker process has ended and every termination signal
\* arrived outside the unprotected positions (so inside the try body, or with
\* no trial in flight), every trial it committed as PENDING is committed as
\* SUCCEEDED or FAILED
C1_TerminalAtExitProtected ==
    (pc = "exited" /\ CancelledOnlyIn({"query", "suggest", "create", "return", "footer"}
                                        \cup TryBody))
        => \A k \in OwnRows : store[k].status \in Terminal

C1_Witness ==
    /\ pc = "exited"
    /\ cancelLog # <<>>
    /\ CancelledOnlyIn(TryBody)
    /\ OwnRows # {}
    /\ \A k \in OwnRows : store[k].status \in Terminal

\* C2: once the status of the trial of run_single_trial is SUCCEEDED or
\* FAILED, no step of that run assigns it another value
C2_StatusAssignedOnce ==
    [][(t.status \in Terminal /\ tid' = tid) => t'.status = t.status]_vars

\* C3: every committed row whose status is SUCCEEDED or FAILED has completed
\* and elapsed set, with elapsed = completed - started
C3_TerminalRowsStamped ==
    \A k \in Rows :
        store[k].status \in Terminal =>
            /\ store[k].completed # <<>>
            /\ store[k].elapsed # <<>>
            /\ store[k].elapsed[1] = store[k].completed[1] - store[k].started

C3_Witness ==
    /\ \E k \in OwnRows : store[k].status = "FAILED" /\ store[k].traceback # ""
    /\ \E k \in OwnRows : /\ store[k].status = "FAILED" /\ store[k].traceback = ""
                          /\ store[k].started > 0
    /\ \E k \in Rows : store[k].status = "SUCCEEDED"

\* C4: while no signal arrives, a trial whose evaluation raised an ordinary
\* error is committed FAILED with a non-empty traceback, no exception leaves
\* run_single_trial, and the process ends only after NIters iterations, with
\* exit status 0
C4_EvaluationErrorIsRecovered ==
    cancelLog = <<>> =>
        /\ \A k \in OwnRows :
              (rowLog[k].eval = "error" /\ (k # tid \/ pc \notin InFlight))
                  => store[k].status = "FAILED" /\ store[k].traceback # ""
        /\ ~pending
        /\ pc = "exited" =>
              /\ exitCode = <<0>>
              /\ iter = NIters
              /\ Len(statuses) = NIters
              /\ Cardinality(OwnRows) = NIters

C4_Witness ==
    /\ cancelLog = <<>>
    /\ pc = "exited"
    /\ \E k \in OwnRows : /\ rowLog[k].eval = "error"
                          /\ store[k].status = "FAILED"
                          /\ k # tid
    /\ statuses[1] = "FAILED"

\* C5: after a signal that arrived while the evaluation was running (and no
\* other), the worker only runs the handler of line 117 and the finally
\* block: it records no status, starts no iteration and creates no trial, and
\* it ends with the trial in flight committed FAILED, completed and elapsed
\* set, and a non-zero exit status
C5_CancelDuringEvaluation ==
    cancelLog = <<"eval">> =>
        /\ pc \in {"except_cancel", "finally", "commit", "exited"}
        /\ Len(statuses) = iter
        /\ Cardinality(OwnRows) = iter + 1
        /\ tid \in OwnRows
        /\ \A k \in OwnRows : k <= tid
        /\ pc = "exited" =>
              /\ store[tid].status = "FAILED"
              /\ store[tid].completed # <<>>
              /\ store[tid].elapsed # <<>>
              /\ exitCode # <<>>
              /\ exitCode[1] # 0

C5_Witness ==
    /\ cancelLog = <<"eval">>
    /\ pc = "exited"
    /\ iter = 1
    /\ store[tid].status = "FAILED"

\* C6: every step that brings the worker to the call of suggest is a query
\* of the store: the history it hands to suggest is the list of all rows
\* committed at that step, each with its committed status
C6_HistoryIsRequeried ==
    [][(pc' = "suggest" /\ pc # "suggest") => history' = QueryAll(store)]_vars

C6_Witness ==
    /\ pc = "suggest"
    /\ iter = 1
    /\ history = QueryAll(store)
    /\ \E k \in OwnRows : history[k].status \in Terminal
    /\ \E k \in Rows : store[k].owner # 0 /\ k > tid

\* C7: while a trial of the worker is in flight its row is in the store with
\* status PENDING, and every history another worker reads in that time holds
\* that row with status PENDING
C7_PendingIsVisible ==
    /\ [](pc \in InFlight =>
            /\ tid \in OwnRows
            /\ store[tid].status = "PENDING"
            /\ store[tid].params = t.params)
    /\ [][(others' = others + 1 /\ pc \in InFlight) =>
            /\ tid \in 1..Len(otherRead')
            /\ otherRead'[tid].status = "PENDING"
            /\ otherRead'[tid].params = t.params]_vars

C7_Witness ==
    /\ pc = "eval"
    /\ others = 1
    /\ tid \in 1..Len(otherRead)
    /\ otherRead[tid].status = "PENDING"
    /\ store[tid].status = "PENDING"

\* C8: a point returned as the acquisition optimum differs from every point
\* that was PENDING in the history the worker had read; so two PENDING rows
\* with the same parameters, the later one an acquisition optimum, exist only
\* if the later worker read the history before the earlier row was committed
C8_PendingSuppression ==
    /\ \A m \in Rows : \A k \in Rows :
          (/\ rowLog[m].src = "gp"
           /\ k <= rowLog[m].seen
           /\ store[k].status = "PENDING")
              => store[k].params # store[m].params
    /\ (pc = "create" /\ sugSrc = "gp") =>
          \A k \in 1..Len(history) :
              history[k].status = "PENDING" => history[k].params # params

\* the race: both workers chose the same acquisition optimum and both rows
\* are PENDING
C8_Witness ==
    \E k \in Rows : \E m \in Rows :
        /\ k < m
        /\ store[k].owner # store[m].owner
        /\ store[k].status = "PENDING" /\ store[m].status = "PENDING"
        /\ store[k].params = store[m].params
        /\ rowLog[k].src = "gp" /\ rowLog[m].src = "gp"
        /\ k > rowLog[m].seen

Min(a, b) == IF a <= b THEN a ELSE b
AllEmpty(hist) == \A i \in 1..Len(hist) : hist[i] = 0

\* C9: with every history empty, call n <= length returns row SKIP + n - 1 of
\* the sequence (one row further per call, none in the first SKIP rows, none
\* twice), and every call after the first `length` calls raises
C9_SobolEmptyHistory ==
    LET n == Len(sobolOut.hist)
        L == sobol.length
    IN  AllEmpty(sobolOut.hist) =>
            /\ sobol.counter = Min(n, L)
            /\ sobolOut.returned = [i \in 1..Min(n, L) |-> SKIP + i - 1]
            /\ (1 <= n /\ n <= L) => /\ sobolOut.kind = "point"
                                    /\ sobolOut.index = SKIP + n - 1
                                    /\ sobolOut.index < sobol.sequence[1]
            /\ n > L => sobolOut.kind = "RuntimeError"

C9_Witness ==
    /\ AllEmpty(sobolOut.hist)
    /\ sobol.length >= 2
    /\ Len(sobolOut.hist) = sobol.length + 1
    /\ Len(sobolOut.returned) = sobol.length
    /\ sobolOut.kind = "RuntimeError"

\* C10: on an all-categorical search space with G combinations, call n of
\* suggest returns item (n - 1) mod G of the product, whatever the history,
\* and never raises
C10_GridWrapsAround ==
    LET n == gridOut.calls
        G == Product(gridOut.space.sizes)
    IN  (gridOut.space.enum /\ n >= 1) =>
            /\ gridOut.kind = "item"
            /\ gridOut.index = (n - 1) % G
            /\ gridOut.item = GridItem(gridOut.space.sizes, (n - 1) % G)
            /\ grid.current = n - 1

C10_Witness ==
    /\ gridOut.space = [enum |-> TRUE, sizes |-> <<2, 3>>]
    /\ gridOut.calls = 8
    /\ gridOut.index = 1
    /\ gridOut.item = <<0, 1>>
    /\ gridOut.hlen > 0

----------------------------------------------------------------------------
(* Properties of GP.suggest, under SpecGP *)

\* a history whose entries all have a status of the Trial state machine
WellFormed(h) == \A i \in 1..Len(h) : h[i].status \in {"PENDING", "SUCCEEDED", "FAILED"}

WithStatus(h, status) == {i \in 1..Len(h) : h[i].status = status}

\* the k-th smallest element of a set of indices
Kth(S, k) == CHOOSE i \in S : Cardinality({j \in S : j <= i}) = k

\* C11: a call on a well-formed history with fewer than `seeds` entries, or
\* fewer than `seeds` SUCCEEDED entries, returns the point RandomSearch drew
\* and leaves the model and the kernel of the object as they were before it
C11_InsufficientDataGuard ==
    (/\ gpOut.calls >= 1
     /\ WellFormed(gpOut.h)
     /\ \/ Len(gpOut.h) < gpOut.before.seeds
        \/ Cardinality(WithStatus(gpOut.h, "SUCCEEDED")) < gpOut.before.seeds)
        => /\ gpOut.kind = "params"
           /\ gpOut.src \in {"random_history", "random_succeeded"}
           /\ gpOut.params = gpOut.rnd
           /\ gp.model = gpOut.before.model
           /\ gp.kernel = gpOut.before.kernel

\* a model fitted by the first call is still there after a second call on a
\* history with too few SUCCEEDED entries
C11_Witness ==
    /\ gpOut.calls = 2
    /\ gpOut.before.model = <<1>>
    /\ Len(gpOut.h) >= gp.seeds
    /\ Cardinality(WithStatus(gpOut.h, "SUCCEEDED")) < gp.seeds
    /\ gpOut.src = "random_succeeded"
    /\ gp.model = <<1>>

SqDist(a, b) == (a[1] - b[1]) * (a[1] - b[1]) + (a[2] - b[2]) * (a[2] - b[2])

\* the acquisition optimum is the transformed point of a PENDING entry, or
\* within Euclidean distance Tol of the transformed point of a SUCCEEDED entry
Coincides(cand, h) ==
    \/ \E i \in WithStatus(h, "PENDING") : PointToGp(h[i].params) = cand
    \/ \E i \in WithStatus(h, "SUCCEEDED") : SqDist(PointToGp(h[i].params), cand) <= Tol * Tol

\* C12, as stated: a call that reached the acquisition optimization and whose
\* optimum coincides with a PENDING point, or lies within the tolerance of
\* some SUCCEEDED point, returns the point RandomSearch drew, never the optimum
C12_DuplicateSuppression ==
    (/\ gpOut.src \in {"gp", "random_suppressed"}
     /\ Coincides(gpOut.cand, gpOut.h))
        => gpOut.src = "random_suppressed" /\ gpOut.params = gpOut.rnd

\* C13, as stated: every call on an object with an invalid or unresolvable
\* kernel specification raises
C13_InvalidKernelFails ==
    (gp.kerns # "valid" /\ gpOut.calls >= 1) => gpOut.kind = "RuntimeError"

\* the call got as far as _fit_model
ReachedFit ==
    /\ WellFormed(gpOut.h)
    /\ Cardinality(WithStatus(gpOut.h, "SUCCEEDED")) >= gp.seeds
    /\ gp.kerns = "valid"

\* C14: a call whose fit fails returns the point RandomSearch drew, raises
\* nothing and leaves the object without a model; a call that reached the
\* acquisition optimization holds the model fitted by that very call
C14_FitFailure ==
    gpOut.calls >= 1 =>
        /\ (ReachedFit /\ ~gpOut.fitOk) =>
              /\ gpOut.kind = "params"
              /\ gpOut.src = "random_fit"
              /\ gpOut.params = gpOut.rnd
              /\ gp.model = <<>>
        /\ gpOut.src \in {"gp", "random_suppressed"} =>
              /\ gpOut.fitOk
              /\ gp.model = <<gpOut.calls>>

\* the first call fitted a model, the fit of the second call failed
C14_Witness ==
    /\ gpOut.calls = 2
    /\ gpOut.before.model = <<1>>
    /\ ~gpOut.fitOk
    /\ gpOut.src = "random_fit"
    /\ gp.model = <<>>

\* C17: for the history of a call that reached _get_data: X, Y and V have one
\* row per SUCCEEDED entry, in history order (transformed parameters, mean and
\* variance of the scores), ignore has one row per PENDING entry, FAILED
\* entries give no row, and an entry of another status makes the call raise
C17_DataExtraction ==
    (gpOut.calls >= 1 /\ Len(gpOut.h) >= gp.seeds) =>
        LET h == gpOut.h
            d == GetData(h)
            S == WithStatus(h, "SUCCEEDED")
            P == WithStatus(h, "PENDING")
        IN  IF WellFormed(h)
            THEN /\ d.kind = "data"
                 /\ Len(d.X) = Cardinality(S)
                 /\ Len(d.Y) = Cardinality(S)
                 /\ Len(d.V) = Cardinality(S)
                 /\ Len(d.ignore) = Cardinality(P)
                 /\ \A k \in 1..Cardinality(S) :
                       LET e == h[Kth(S, k)]
                       IN  /\ d.X[k] = PointToGp(e.params)
                           /\ d.Y[k] = (IF e.score = <<-1>> THEN -1 ELSE 2)
                           /\ d.V[k] = (IF e.score = <<-1>> THEN 0 ELSE 4)
                 /\ \A k \in 1..Cardinality(P) :
                       d.ignore[k] = PointToGp(h[Kth(P, k)].params)
            ELSE /\ d.kind = "RuntimeError"
                 /\ gpOut.kind = "RuntimeError"
                 /\ gpOut.src = "get_data"

\* a SUCCEEDED entry after a FAILED one; a PENDING entry after a SUCCEEDED one
C17_Witness ==
    /\ gpOut.calls >= 1
    /\ Len(gpOut.h) = 2
    /\ gpOut.h[1].status = "SUCCEEDED" /\ gpOut.h[1].score = <<0, 4>>
    /\ gpOut.h[2].status = "PENDING"
    /\ gpOut.kind = "params"
    /\ GetData(gpOut.h).V = <<4>>
    /\ Len(GetData(gpOut.h).ignore) = 1

----------------------------------------------------------------------------
(* Properties of HyperoptTPE.suggest, under SpecTPE *)

\* C15: for a well-formed history the database holds one document per entry,
\* in history order, with tid the index of the entry counted from 0; a
\* SUCCEEDED entry gives status ok and loss -mean(scores), a PENDING entry
\* status running and no loss, a FAILED entry status fail and no loss; an
\* entry of another status makes the call raise
C15_TpeBridge ==
    tpeOut.calls >= 1 =>
        LET h == tpeOut.h
        IN  IF WellFormed(h)
            THEN /\ tpeOut.kind = "trials"
                 /\ Len(tpeOut.trials) = Len(h)
                 /\ \A i \in 1..Len(h) :
                       LET doc == tpeOut.trials[i]
                       IN  /\ doc.tid = i - 1
                           /\ doc.misc.tid = i - 1
                           /\ doc.misc.vals = [j \in 1..NDims |-> <<h[i].params[j]>>]
                           /\ h[i].status = "SUCCEEDED" =>
                                 /\ doc.result.status = "ok"
                                 /\ doc.result.loss =
                                        (IF h[i].score = <<-1>> THEN <<1>> ELSE <<-2>>)
                           /\ h[i].status = "PENDING" =>
                                 doc.result = [status |-> "running", loss |-> <<>>]
                           /\ h[i].status = "FAILED" =>
                                 doc.result = [status |-> "fail", loss |-> <<>>]
            ELSE tpeOut.kind = "RuntimeError"

\* a FAILED entry that carries scores, then a SUCCEEDED one
C15_Witness ==
    /\ tpeOut.kind = "trials"
    /\ Len(tpeOut.h) = 2
    /\ tpeOut.h[1].status = "FAILED" /\ tpeOut.h[1].score # <<>>
    /\ tpeOut.trials[1].result.status = "fail"
    /\ tpeOut.h[2].status = "SUCCEEDED"
    /\ tpeOut.trials[2].result.loss = <<-2>>
    /\ tpeOut.trials[2].tid = 1

----------------------------------------------------------------------------
(* Properties of the worker, under Spec (continued) *)

\* the mean scores of the SUCCEEDED trials, the trial that just completed
\* (SUCCEEDED in the session, not yet committed) included
SucceededMeans ==
    {t.mean[1]} \cup {store[k].mean[1] :
                         k \in {i \in Rows : i # tid /\ store[i].status = "SUCCEEDED"}}

\* C16, as stated: when the evaluation completed normally, the best score
\* reported is the maximum of the mean scores of the SUCCEEDED trials
C16_BestOverSucceeded ==
    [][(pc = "report" /\ pc' = "finally")
          => best' = <<CHOOSE v \in SucceededMeans : \A u \in SucceededMeans : u <= v>>]_vars

----------------------------------------------------------------------------
(* Properties of SobolSearch, under SpecSobol (continued) *)

\* C18: with h entries in the history of the first call, the offset is
\* SKIP + h and the sequence has length + SKIP rows from then on; call n
\* returns row SKIP + h + n - 1 while n <= max(0, length - h), whatever the
\* later histories; every later call raises and leaves the cursor where it was
C18_SobolCapacity ==
    LET n == Len(sobolOut.hist)
        L == sobol.length
    IN  n >= 1 =>
            LET h == sobolOut.hist[1]
                cap == Max(0, L - h)
            IN  /\ sobol.offset = SKIP + h
                /\ sobol.sequence = <<L + SKIP>>
                /\ sobol.counter = Min(n, cap)
                /\ sobolOut.returned = [i \in 1..Min(n, cap) |-> SKIP + h + i - 1]
                /\ n <= cap => /\ sobolOut.kind = "point"
                               /\ sobolOut.index = SKIP + h + n - 1
                /\ n > cap => sobolOut.kind = "RuntimeError"

\* length 3 and one entry at the first call: two points, then two failures,
\* the later histories being longer and shorter
C18_Witness ==
    /\ sobol.length = 3
    /\ Len(sobolOut.hist) = 4
    /\ sobolOut.hist[1] = 1 /\ sobolOut.hist[2] = 2 /\ sobolOut.hist[3] = 0
    /\ sobolOut.returned = <<SKIP + 1, SKIP + 2>>
    /\ sobol.counter = 2
    /\ sobolOut.kind = "RuntimeError"

====
